---- MODULE Spec2Model ----
(***************************************************************************)
(* Model of the salon LINE bot's conversation core:                        *)
(*   api/reservation_flow.py  ReservationFlow (intent router + dialogue)   *)
(*   api/rag_faq.py           RAGFAQ (KB store, FAQ index, search)         *)
(*   api/chatgpt_faq.py       ChatGPTFAQ (the gate before the backend)     *)
(*   api/index.py             handle_message (one turn of the bot)         *)
(* Spec runs the router and the dialogue alone; FaqSpec runs whole turns   *)
(* of handle_message over the FAQ and KB files the process may load;       *)
(* ConcSpec runs webhook callbacks that are in flight at the same time.    *)
(*                                                                         *)
(* Text.  TLA+ strings are ASCII, so every Japanese word the code looks    *)
(* for is written as one romanised atom ("yoyaku" is the word spelled      *)
(* yo-yaku in the source, "katto" the service at line 14, ...).  A message *)
(* is a sequence of atoms: words, the digits "0".."9", ":" and "ji" (the   *)
(* hour suffix).  `k in message` of the code is HasKw: some atom of the    *)
(* message contains k, where SubKw lists, for each atom, the keywords that *)
(* are substrings of the atom's text.  str.lower() is Lower.               *)
(*                                                                         *)
(* Dates.  strftime("%Y-%m-%d") is injective on days, so a date string is  *)
(* modelled by its day number; Weekday(d) = d % 7 with 0 = Monday, as      *)
(* datetime.weekday().  A time is the formatted string itself, "14:00",    *)
(* built from its digits by FmtTime.                                       *)
(***************************************************************************)
EXTENDS Integers, Sequences, FiniteSets, TLC

VARIABLES
    available_slots,  \* ReservationFlow.available_slots: list of slot dicts
    base_date,        \* day on which the engine was constructed
    now,              \* current day, datetime.now()
    user_states,      \* ReservationFlow.user_states: dict user -> {step, data}
    rag_faq,          \* the RAGFAQ object: faq_data, kb_data, keyword_index
    event,            \* the turn handled last: user, step, intent and reply
    requests,         \* the webhook callbacks in flight: position, locals, reply
    running,          \* the callback that holds the event loop, 0 when none
    before            \* user_states when the round of callbacks began

vars == <<available_slots, base_date, now, user_states, rag_faq, event,
          requests, running, before>>

\* The variables of the concurrent callbacks, at rest.
conc_vars == <<requests, running, before>>

-----------------------------------------------------------------------------
(* Bounds                                                                  *)

\* Days the process keeps running after its construction.
MaxDays == 1

Users == {"u1", "u2"}

-----------------------------------------------------------------------------
(* Text primitives                                                         *)

Digits == {"0", "1", "2", "3", "4", "5", "6", "7", "8", "9"}

DigitVal(c) ==
    CASE c = "0" -> 0 [] c = "1" -> 1 [] c = "2" -> 2 [] c = "3" -> 3
      [] c = "4" -> 4 [] c = "5" -> 5 [] c = "6" -> 6 [] c = "7" -> 7
      [] c = "8" -> 8 [] c = "9" -> 9

DigitChar(n) ==
    CASE n = 0 -> "0" [] n = 1 -> "1" [] n = 2 -> "2" [] n = 3 -> "3"
      [] n = 4 -> "4" [] n = 5 -> "5" [] n = 6 -> "6" [] n = 7 -> "7"
      [] n = 8 -> "8" [] n = 9 -> "9"

\* str.lower() on one atom: only Latin letters have case.
LowerAtom(a) ==
    CASE a = "Cut" -> "cut"
      [] a = "CUT" -> "cut"
      [] a = "Perm" -> "perm"
      [] a = "HOURS" -> "hours"
      [] a = "PRICE" -> "price"
      [] a = "ADDRESS" -> "address"
      [] a = "HOLIDAY" -> "holiday"
      [] OTHER -> a

Lower(message) == [i \in 1..Len(message) |-> LowerAtom(message[i])]

\* The keywords that are proper substrings of an atom's text.
SubKw(a) ==
    CASE a = "yoyaku_shitai" -> {"yoyaku"}
      [] a = "yoyaku_onegai" -> {"yoyaku", "onegai"}
      [] a = "yoyaku_dekimasuka" -> {"yoyaku"}
      [] a = "yoyaku_henkou" -> {"yoyaku", "henkou"}
      [] a = "doyoubi" -> {"doyou"}
      [] a = "kyanseru_onegaishimasu" -> {"kyanseru", "onegai"}
      [] a = "yakuzai" -> {"kusuri"}
      [] OTHER -> {}

\* Every keyword that occurs in the text of the message.
Words(message) ==
    UNION {{message[i]} \cup SubKw(message[i]) : i \in 1..Len(message)}

\* `k in message`, given words = Words(message)
HasKw(words, k) == k \in words

\* any(keyword in message for keyword in keywords), given words = Words(message)
AnyKw(words, keywords) ==
    \E j \in 1..Len(keywords) : HasKw(words, keywords[j])

\* `message in [k1, k2, ...]`: the whole message is one of the keywords.
IsOneOf(message, keywords) ==
    \E j \in 1..Len(keywords) : message = <<keywords[j]>>

-----------------------------------------------------------------------------
(* Static tables of ReservationFlow                                        *)

None == "None"

\* self.services (name -> duration, price)
services(name) ==
    CASE name = "katto" -> [duration |-> 60, price |-> 3000]
      [] name = "karaa" -> [duration |-> 120, price |-> 8000]
      [] name = "paama" -> [duration |-> 150, price |-> 12000]
      [] name = "toriitomento" -> [duration |-> 90, price |-> 5000]

\* detect_intent: keyword lists, in source order
in_flow_service_keywords == <<"katto", "karaa", "paama", "toriitomento">>

reservation_keywords ==
    <<"yoyaku", "yoyaku_shitai", "yoyaku_onegai", "yoyaku_dekimasuka",
      "aiteru", "aki", "jikan", "itsu", "kanou">>

service_selection_keywords == <<"katto", "karaa", "paama", "toriitomento">>

staff_selection_keywords ==
    <<"tanaka", "satou", "yamada", "mishitei", "tantousha", "biyoushi">>

cancel_keywords == <<"kyanseru", "torikeshi", "yoyaku_henkou", "henkou">>

\* handle_reservation_flow: messages that cancel the dialogue
flow_cancel_words == <<"kyanseru", "torikeshi", "yameru", "chuushi">>

\* _handle_service_selection: keyword -> service, in dict order
service_mapping ==
    << <<"katto", "katto">>, <<"karaa", "karaa">>, <<"paama", "paama">>,
       <<"toriitomento", "toriitomento">>, <<"cut", "katto">>,
       <<"color", "karaa">>, <<"perm", "paama">>,
       <<"treatment", "toriitomento">> >>

\* _handle_staff_selection: keyword -> staff, in dict order
staff_mapping ==
    << <<"tanaka", "tanaka">>, <<"satou", "satou">>, <<"yamada", "yamada">>,
       <<"mishitei", "mishitei">>, <<"tantousha", "mishitei">>,
       <<"biyoushi", "mishitei">> >>

\* _handle_confirmation: affirmative keywords
confirm_keywords == <<"hai", "kakutei", "onegai">>

-----------------------------------------------------------------------------
(* Helpers                                                                 *)

MinOf(S) == CHOOSE x \in S : \A y \in S : x <= y

\* Faulty variant of FirstMatch: the loop has no break, so the last entry
\* found in the message is kept.
FirstMatch_last(words, mapping) ==
    LET hits == {j \in 1..Len(mapping) : HasKw(words, mapping[j][1])}
    IN  IF hits = {} THEN None
        ELSE mapping[CHOOSE j \in hits : \A k \in hits : k <= j][2]

\* for keyword, name in mapping.items(): if keyword in message: ...; break
FirstMatch(words, mapping) ==
    LET hits == {j \in 1..Len(mapping) : HasKw(words, mapping[j][1])}
    IN  IF hits = {} THEN None ELSE mapping[MinOf(hits)][2]

\* d[k] = v on a dict
Put(d, k, v) == [x \in (DOMAIN d) \cup {k} |-> IF x = k THEN v ELSE d[x]]

\* del d[k]
Del(d, k) == [x \in (DOMAIN d) \ {k} |-> d[x]]

EmptyDict == <<>>

Weekday(d) == d % 7

\* Faulty variant of AvailableTimes: a time another user has chosen for the
\* date and is about to confirm is no longer offered.
AvailableTimes_unbooked(slots, selected_date) ==
    LET held(t) == \E u \in DOMAIN user_states :
                       /\ user_states[u].step = "confirmation"
                       /\ user_states[u].data["date"] = selected_date
                       /\ user_states[u].data["time"] = t
        keep(slot) == slot.date = selected_date /\ slot.available
                      /\ ~held(slot.time)
        sel == SelectSeq(slots, keep)
    IN  [i \in 1..Len(sel) |-> sel[i].time]

\* [slot["time"] for slot in self.available_slots
\*      if slot["date"] == selected_date and slot["available"]]
AvailableTimes(slots, selected_date) ==
    LET keep(slot) == slot.date = selected_date /\ slot.available
        sel == SelectSeq(slots, keep)
    IN  [i \in 1..Len(sel) |-> sel[i].time]

InSeq(x, s) == \E i \in 1..Len(s) : s[i] = x

Take(s, n) == SubSeq(s, 1, IF Len(s) < n THEN Len(s) ELSE n)

\* f"{n:02d}" for 0 <= n <= 99
Fmt02d(n) == DigitChar(n \div 10) \o DigitChar(n % 10)

\* f"{hour:02d}:{minute:02d}"
FmtTime(hour, minute) == Fmt02d(hour) \o ":" \o Fmt02d(minute)

IsDigitAt(message, i) == i >= 1 /\ i <= Len(message) /\ message[i] \in Digits

\* Faulty variant of TimeMatch: the pattern lacks the minute group, so the
\* minute is always 0.
TimeMatch_hour_only(message) ==
    LET starts == {i \in 1..Len(message) : message[i] \in Digits}
    IN  IF starts = {} THEN [found |-> FALSE]
        ELSE LET i == MinOf(starts)
                 two == IsDigitAt(message, i + 1)
             IN  [found |-> TRUE,
                  hour |-> IF two
                           THEN 10 * DigitVal(message[i]) + DigitVal(message[i + 1])
                           ELSE DigitVal(message[i]),
                  minute |-> 0]

\* re.search(r'(\d{1,2}):?(\d{2})?', message): the leftmost digit starts the
\* match; the hour takes two digits when it can, then an optional colon,
\* then the minute when two digits follow.
TimeMatch(message) ==
    LET starts == {i \in 1..Len(message) : message[i] \in Digits}
    IN  IF starts = {} THEN [found |-> FALSE]
        ELSE LET i == MinOf(starts)
                 two == IsDigitAt(message, i + 1)
                 j == IF two THEN i + 2 ELSE i + 1
                 k == IF j <= Len(message) /\ message[j] = ":" THEN j + 1 ELSE j
                 hasMin == IsDigitAt(message, k) /\ IsDigitAt(message, k + 1)
             IN  [found |-> TRUE,
                  hour |-> IF two
                           THEN 10 * DigitVal(message[i]) + DigitVal(message[i + 1])
                           ELSE DigitVal(message[i]),
                  minute |-> IF hasMin
                             THEN 10 * DigitVal(message[k]) + DigitVal(message[k + 1])
                             ELSE 0]

-----------------------------------------------------------------------------
(* Replies.  A reply is the record of the text the code returns: `kind`    *)
(* names the literal or f-string, the other fields are the values the      *)
(* f-string interpolates.                                                  *)

NoDecision == [kind |-> "None"]                              \* line 326
ContactSupport == [kind |-> "contact_support"]               \* line 324
Farewell == [kind |-> "farewell"]                            \* lines 107, 307
FlowError == [kind |-> "flow_error"]                         \* line 125
ServicePrompt == [kind |-> "service_prompt"]                 \* lines 130-140
ServiceRetry == [kind |-> "service_retry"]                   \* line 165
StaffPrompt(service) == [kind |-> "staff_prompt", service |-> service]
StaffRetry == [kind |-> "staff_retry"]                       \* line 203
DatePrompt(staff) == [kind |-> "date_prompt", staff |-> staff]
DateRetry == [kind |-> "date_retry"]                         \* line 234
TimePrompt(date, times) == [kind |-> "time_prompt", date |-> date, times |-> times]
TimeInvalid == [kind |-> "time_invalid"]                     \* line 257
TimeUnavailable == [kind |-> "time_unavailable"]             \* line 269
ConfirmPrompt(date, time, service, staff, info) ==
    [kind |-> "confirm_prompt", date |-> date, time |-> time,
     service |-> service, staff |-> staff,
     duration |-> info.duration, price |-> info.price]
\* Faulty variant of Completed: service and staff are interpolated into
\* each other's line.
Completed_mixed(data) ==
    [kind |-> "completed", date |-> data["date"], time |-> data["time"],
     service |-> data["staff"], staff |-> data["service"]]

Completed(data) ==
    [kind |-> "completed", date |-> data["date"], time |-> data["time"],
     service |-> data["service"], staff |-> data["staff"]]

\* The reply ends with the line that tells the user to send the
\* cancellation keyword to cancel (lines 140, 180, 218, 250, 289).
cancel_reminder(reply) ==
    reply.kind \in {"service_prompt", "staff_prompt", "date_prompt",
                    "time_prompt", "confirm_prompt"}

\* What a handler hands back: the dict after the call and the returned text.
Result(states, reply) == [states |-> states, reply |-> reply]

\* self.user_states[user_id]["step"] = step
SetStep(states, user_id, step) ==
    Put(states, user_id, [states[user_id] EXCEPT !.step = step])

\* self.user_states[user_id]["data"][key] = value
SetData(states, user_id, key, value) ==
    Put(states, user_id,
        [states[user_id] EXCEPT !.data = Put(states[user_id].data, key, value)])

-----------------------------------------------------------------------------
(* ReservationFlow                                                         *)

\* _generate_sample_slots
_generate_sample_slots(base) ==
    LET days == SelectSeq([i \in 1..7 |-> base + (i - 1)],
                          LAMBDA d : Weekday(d) # 1)
        hours == SelectSeq([i \in 1..9 |-> 9 + i], LAMBDA h : h # 12)
        n == Len(hours)
    IN  [i \in 1..(Len(days) * n) |->
            [date |-> days[((i - 1) \div n) + 1],
             time |-> FmtTime(hours[((i - 1) % n) + 1], 0),
             available |-> TRUE]]

\* Faulty variant of detect_intent: staff names are tested before service
\* names.
detect_intent_staff_first(states, message, user_id) ==
    LET message_lower == Words(Lower(message))
        in_flow == user_id \in DOMAIN states
        step == IF in_flow THEN states[user_id].step ELSE None
    IN  IF in_flow /\ step = "service_selection"
           /\ AnyKw(message_lower, in_flow_service_keywords)
        THEN "service_selection"
        ELSE IF in_flow /\ step \in {"date_selection", "time_selection", "confirmation"}
        THEN "reservation_flow"
        ELSE IF AnyKw(message_lower, reservation_keywords) THEN "reservation"
        ELSE IF AnyKw(message_lower, staff_selection_keywords) THEN "staff_selection"
        ELSE IF AnyKw(message_lower, service_selection_keywords) THEN "service_selection"
        ELSE IF AnyKw(message_lower, cancel_keywords) THEN "cancel"
        ELSE "general"

\* detect_intent
detect_intent(states, message, user_id) ==
    LET message_lower == Words(Lower(message))
        in_flow == user_id \in DOMAIN states
        step == IF in_flow THEN states[user_id].step ELSE None
    IN  IF in_flow /\ step = "service_selection"
           /\ AnyKw(message_lower, in_flow_service_keywords)
        THEN "service_selection"
        ELSE IF in_flow /\ step \in {"date_selection", "time_selection", "confirmation"}
        THEN "reservation_flow"
        ELSE IF AnyKw(message_lower, reservation_keywords) THEN "reservation"
        ELSE IF AnyKw(message_lower, service_selection_keywords) THEN "service_selection"
        ELSE IF AnyKw(message_lower, staff_selection_keywords) THEN "staff_selection"
        ELSE IF AnyKw(message_lower, cancel_keywords) THEN "cancel"
        ELSE "general"

\* Faulty variant of _start_reservation: the step is set one too far.
_start_reservation_skip(states, user_id) ==
    Result(SetStep(states, user_id, "staff_selection"), ServicePrompt)

\* Faulty variant of _start_reservation: the prompt is returned and the
\* step is left as it was created.
_start_reservation_keep(states, user_id) ==
    Result(states, ServicePrompt)

\* _start_reservation
_start_reservation(states, user_id) ==
    Result(SetStep(states, user_id, "service_selection"), ServicePrompt)

\* _handle_service_selection
_handle_service_selection(states, user_id, message) ==
    LET selected_service == FirstMatch(Words(Lower(message)), service_mapping)
    IN  IF selected_service = None
        THEN Result(states, ServiceRetry)
        ELSE Result(SetStep(SetData(states, user_id, "service", selected_service),
                            user_id, "staff_selection"),
                    StaffPrompt(selected_service))

\* Faulty variant of _handle_staff_selection: the step advances but the
\* staff is not stored.
_handle_staff_selection_nostore(states, user_id, message) ==
    LET selected_staff == FirstMatch(Words(Lower(message)), staff_mapping)
    IN  IF selected_staff = None
        THEN Result(states, StaffRetry)
        ELSE Result(SetStep(states, user_id, "date_selection"),
                    DatePrompt(selected_staff))

\* _handle_staff_selection
_handle_staff_selection(states, user_id, message) ==
    LET selected_staff == FirstMatch(Words(Lower(message)), staff_mapping)
    IN  IF selected_staff = None
        THEN Result(states, StaffRetry)
        ELSE Result(SetStep(SetData(states, user_id, "staff", selected_staff),
                            user_id, "date_selection"),
                    DatePrompt(selected_staff))

\* Faulty variant of ResolveDate: `< 0` in place of `<= 0`, so that on a
\* Saturday the keyword means today.
ResolveDate_today(message) ==
    LET words == Words(message)
    IN  IF HasKw(words, "ashita") THEN now + 1
        ELSE IF HasKw(words, "asatte") THEN now + 2
        ELSE IF HasKw(words, "doyoubi") \/ HasKw(words, "doyou")
        THEN LET days_ahead == 5 - Weekday(now)
             IN  now + (IF days_ahead < 0 THEN days_ahead + 7 ELSE days_ahead)
        ELSE -1

\* _handle_date_selection: the date chosen, or -1 when no keyword is found
ResolveDate(message) ==
    LET words == Words(message)
    IN  IF HasKw(words, "ashita") THEN now + 1
        ELSE IF HasKw(words, "asatte") THEN now + 2
        ELSE IF HasKw(words, "doyoubi") \/ HasKw(words, "doyou")
        THEN LET days_ahead == 5 - Weekday(now)
             IN  now + (IF days_ahead <= 0 THEN days_ahead + 7 ELSE days_ahead)
        ELSE -1

\* Faulty variant of _handle_date_selection: an unrecognised date ends the
\* dialogue instead of asking again.
_handle_date_selection_abort(states, user_id, message) ==
    LET selected_date == ResolveDate(message)
    IN  IF selected_date = -1
        THEN Result(Del(states, user_id), DateRetry)
        ELSE Result(SetStep(SetData(states, user_id, "date", selected_date),
                            user_id, "time_selection"),
                    TimePrompt(selected_date,
                               Take(AvailableTimes(available_slots, selected_date), 5)))

\* _handle_date_selection
_handle_date_selection(states, user_id, message) ==
    LET selected_date == ResolveDate(message)
    IN  IF selected_date = -1
        THEN Result(states, DateRetry)
        ELSE Result(SetStep(SetData(states, user_id, "date", selected_date),
                            user_id, "time_selection"),
                    TimePrompt(selected_date,
                               Take(AvailableTimes(available_slots, selected_date), 5)))

\* _handle_time_selection
_handle_time_selection(states, user_id, message) ==
    LET time_match == TimeMatch(message)
    IN  IF ~time_match.found
        THEN Result(states, TimeInvalid)
        ELSE LET selected_time == FmtTime(time_match.hour, time_match.minute)
                 selected_date == states[user_id].data["date"]
                 available_times == AvailableTimes(available_slots, selected_date)
             IN  IF ~InSeq(selected_time, available_times)
                 THEN Result(states, TimeUnavailable)
                 ELSE LET after == SetStep(SetData(states, user_id, "time", selected_time),
                                           user_id, "confirmation")
                          service == after[user_id].data["service"]
                          staff == after[user_id].data["staff"]
                      IN  Result(after,
                                 ConfirmPrompt(selected_date, selected_time, service,
                                               staff, services(service)))

\* _handle_confirmation
_handle_confirmation(states, user_id, message) ==
    IF AnyKw(Words(message), confirm_keywords)
    THEN Result(Del(states, user_id), Completed(states[user_id].data))
    ELSE Result(states, Farewell)

\* handle_reservation_flow
handle_reservation_flow(states, user_id, message) ==
    LET created == IF user_id \notin DOMAIN states
                   THEN Put(states, user_id, [step |-> "start", data |-> EmptyDict])
                   ELSE states
    IN  IF IsOneOf(Lower(message), flow_cancel_words)
        THEN Result(Del(created, user_id), Farewell)
        ELSE LET step == created[user_id].step
             IN  CASE step = "start" -> _start_reservation(created, user_id)
                   [] step = "service_selection" ->
                          _handle_service_selection(created, user_id, message)
                   [] step = "staff_selection" ->
                          _handle_staff_selection(created, user_id, message)
                   [] step = "date_selection" ->
                          _handle_date_selection(created, user_id, message)
                   [] step = "time_selection" ->
                          _handle_time_selection(created, user_id, message)
                   [] step = "confirmation" ->
                          _handle_confirmation(created, user_id, message)
                   [] OTHER -> Result(created, FlowError)

\* Faulty variant of get_response: a cancellation request drops the user's
\* dialogue.
get_response_cancel_drops(states, user_id, message) ==
    LET intent == detect_intent(states, message, user_id)
    IN  IF intent \in {"reservation", "reservation_flow",
                       "service_selection", "staff_selection"}
        THEN handle_reservation_flow(states, user_id, message)
        ELSE IF intent = "cancel"
        THEN Result(Del(states, user_id), ContactSupport)
        ELSE Result(states, NoDecision)

\* get_response
get_response(states, user_id, message) ==
    LET intent == detect_intent(states, message, user_id)
    IN  IF intent \in {"reservation", "reservation_flow",
                       "service_selection", "staff_selection"}
        THEN handle_reservation_flow(states, user_id, message)
        ELSE IF intent = "cancel"
        THEN Result(states, ContactSupport)
        ELSE Result(states, NoDecision)

-----------------------------------------------------------------------------
(* RAGFAQ (api/rag_faq.py).  FAQ text is a sequence of atoms as well; here *)
(* the atoms that are not letters, kana or kanji matter, because they end  *)
(* a word of the tokenizer.  The atoms of the FAQ vocabulary share no      *)
(* characters, so one text occurs in another exactly when its atoms occur  *)
(* there in a row.                                                         *)

\* What the pattern [a-zA-Z\u3040-\u309F\u30A0-\u30FF\u4E00-\u9FAF] does not match.
Separators == {" ", "?", "{", "}", ":", "_", "-"} \cup Digits

\* The atoms whose text is a single character.
OneCharAtoms == {"ha", "ga", "wo", "ni", "de", "to", "no", "ka", "kusuri"}

\* _extract_keywords: stop_words
stop_words ==
    {<<"ha">>, <<"ga">>, <<"wo">>, <<"ni">>, <<"de">>, <<"to">>, <<"no">>,
     <<"desu">>, <<"masu">>, <<"ka">>}

\* str.strip(): leading and trailing blanks removed
RECURSIVE Strip(_)
Strip(text) ==
    IF text # <<>> /\ Head(text) = " " THEN Strip(Tail(text))
    ELSE IF text # <<>> /\ text[Len(text)] = " "
    THEN Strip(SubSeq(text, 1, Len(text) - 1))
    ELSE text

\* `part in text` for a non-empty part
Contains(text, part) ==
    \E i \in 1..(Len(text) - Len(part) + 1) :
        SubSeq(text, i, i + Len(part) - 1) = part

\* _load_faq_data: the list in the file, [] when the file cannot be read
_load_faq_data(source) == IF source.ok THEN source.items ELSE <<>>

\* _load_kb_data: key -> value over the items that have both; a later item
\* replaces an earlier one with the same key; {} when the file cannot be read
_load_kb_data(source) ==
    IF ~source.ok THEN EmptyDict
    ELSE LET kb_list == source.items
             kept == {i \in 1..Len(kb_list) :
                         kb_list[i].key # "" /\ kb_list[i].value # ""}
             last(k) == CHOOSE i \in kept :
                            /\ kb_list[i].key = k
                            /\ \A j \in kept : kb_list[j].key = k => j <= i
         IN  [k \in {kb_list[i].key : i \in kept} |-> kb_list[last(k)].value]

\* _extract_keywords: the maximal runs of letters, longer than one character
\* and not a stop word.  A word is the sequence of the atoms of its run.
_extract_keywords(text) ==
    LET letters(i) == i >= 1 /\ i <= Len(text) /\ text[i] \notin Separators
        starts == {i \in 1..Len(text) : letters(i) /\ ~letters(i - 1)}
        end(i) == MinOf({j \in i..Len(text) : ~letters(j + 1)})
        words == {SubSeq(text, i, end(i)) : i \in starts}
        longer(word) == Len(word) > 1 \/ word[1] \notin OneCharAtoms
    IN  {word \in words : longer(word) /\ word \notin stop_words}

\* _build_keyword_index: one index item per FAQ entry, in the order loaded
_build_keyword_index(faq) ==
    [i \in 1..Len(faq) |->
        LET question == Lower(faq[i].question)
            answer_template == Lower(faq[i].answer_template)
        IN  [item |-> faq[i],
             at |-> i,
             keywords |-> _extract_keywords(question \o <<" ">> \o answer_template),
             question |-> question,
             answer_template |-> answer_template]]

\* A score is a Python float.  It is kept as the exact fraction num/den
\* and, for the one sum that rounds up (2/5 + 0.2 = 0.6000000000000001 >
\* 3/5), one unit in the last place; for up to 9 keywords in a union the
\* floats compare exactly as these triples do.
Float(num, den, ulp) == [num |-> num, den |-> den, ulp |-> ulp]

Greater(a, b) ==
    \/ a.num * b.den > b.num * a.den
    \/ a.num * b.den = b.num * a.den /\ a.ulp > b.ulp

GreaterEq(a, b) == ~Greater(b, a)

\* search: threshold: float = 0.3
default_threshold == Float(3, 10, 0)

\* search: overlap / total_keywords, plus 0.2 when a query keyword occurs in
\* the question
Score(query_keywords, index_item) ==
    LET overlap == Cardinality(query_keywords \cap index_item.keywords)
        total_keywords == Cardinality(query_keywords \cup index_item.keywords)
        direct == \E keyword \in query_keywords :
                      Contains(index_item.question, keyword)
    IN  IF direct
        THEN Float(5 * overlap + total_keywords, 5 * total_keywords,
                   IF 5 * overlap = 2 * total_keywords THEN 1 ELSE 0)
        ELSE Float(overlap, total_keywords, 0)

\* Faulty variant of _extract_kb_facts: the key is looked for without its
\* braces.
_extract_kb_facts_bare(kb, faq_item) ==
    LET answer_template == faq_item.answer_template
    IN  [key \in {k \in DOMAIN kb : Contains(answer_template, <<k>>)} |-> kb[key]]

\* _extract_kb_facts: the KB pairs whose {key} occurs in the answer template
_extract_kb_facts(kb, faq_item) ==
    LET answer_template == faq_item.answer_template
    IN  [key \in {k \in DOMAIN kb : Contains(answer_template, <<"{", k, "}">>)}
            |-> kb[key]]

NoResult == [found |-> FALSE]

\* Faulty variant of SearchLoop: `>=` in place of `>`, so that the last of
\* several best entries is kept.
RECURSIVE SearchLoop_last(_, _, _, _)
SearchLoop_last(keyword_index, query_keywords, i, best) ==
    IF i > Len(keyword_index) THEN best
    ELSE LET index_item == keyword_index[i]
             total_keywords ==
                 Cardinality(query_keywords \cup index_item.keywords)
             score == Score(query_keywords, index_item)
         IN  IF total_keywords > 0 /\ GreaterEq(score, best.best_score)
             THEN SearchLoop_last(keyword_index, query_keywords, i + 1,
                                  [best_match |-> i, best_score |-> score])
             ELSE SearchLoop_last(keyword_index, query_keywords, i + 1, best)

\* search: the loop over self.keyword_index from item i on
RECURSIVE SearchLoop(_, _, _, _)
SearchLoop(keyword_index, query_keywords, i, best) ==
    IF i > Len(keyword_index) THEN best
    ELSE LET index_item == keyword_index[i]
             total_keywords ==
                 Cardinality(query_keywords \cup index_item.keywords)
             score == Score(query_keywords, index_item)
         IN  IF total_keywords > 0 /\ Greater(score, best.best_score)
             THEN SearchLoop(keyword_index, query_keywords, i + 1,
                             [best_match |-> i, best_score |-> score])
             ELSE SearchLoop(keyword_index, query_keywords, i + 1, best)

\* RAGFAQ.__init__: the object after both loads; keyword_index is set only
\* when there are FAQ entries.
RAGFAQ(faq_source, kb_source) ==
    LET loaded == [faq_data |-> _load_faq_data(faq_source),
                   kb_data |-> _load_kb_data(kb_source)]
    IN  IF loaded.faq_data = <<>> THEN loaded
        ELSE [faq_data |-> loaded.faq_data, kb_data |-> loaded.kb_data,
              keyword_index |-> _build_keyword_index(loaded.faq_data)]

\* Faulty variant of search: the best entry is returned whatever its score.
search_any_score(self, query, threshold) ==
    IF self.faq_data = <<>> \/ "keyword_index" \notin DOMAIN self THEN NoResult
    ELSE LET keyword_index == self.keyword_index
             query_keywords == _extract_keywords(Lower(query))
             best == SearchLoop(keyword_index, query_keywords, 1,
                                [best_match |-> 0, best_score |-> Float(0, 1, 0)])
         IN  IF best.best_match # 0
             THEN LET faq_item == keyword_index[best.best_match].item
                  IN  [found |-> TRUE,
                       at |-> best.best_match,
                       faq_item |-> faq_item,
                       similarity_score |-> best.best_score,
                       kb_facts |-> _extract_kb_facts(self.kb_data, faq_item),
                       category |-> faq_item.category,
                       question |-> faq_item.question]
             ELSE NoResult

\* search.  best_match 0 is None; `at` is the identity of the faq_item
\* object returned, its place in faq_data.
search(self, query, threshold) ==
    IF self.faq_data = <<>> \/ "keyword_index" \notin DOMAIN self THEN NoResult
    ELSE LET keyword_index == self.keyword_index
             query_keywords == _extract_keywords(Lower(query))
             best == SearchLoop(keyword_index, query_keywords, 1,
                                [best_match |-> 0, best_score |-> Float(0, 1, 0)])
         IN  IF best.best_match # 0 /\ GreaterEq(best.best_score, threshold)
             THEN LET faq_item == keyword_index[best.best_match].item
                  IN  [found |-> TRUE,
                       at |-> best.best_match,
                       faq_item |-> faq_item,
                       similarity_score |-> best.best_score,
                       kb_facts |-> _extract_kb_facts(self.kb_data, faq_item),
                       category |-> faq_item.category,
                       question |-> faq_item.question]
             ELSE NoResult

\* get_kb_facts
get_kb_facts(self, user_message) == search(self, user_message, default_threshold)

-----------------------------------------------------------------------------
(* ChatGPTFAQ (api/chatgpt_faq.py)                                         *)

\* _is_dangerous_query: dangerous_keywords
dangerous_keywords ==
    <<"kusuri", "yakuzai", "chiryou", "shindan", "byouki", "shoujou",
      "fukusayou", "arerugii", "ninshin", "junyuu", "iryou", "ishi", "byouin">>

\* _is_dangerous_query
_is_dangerous_query(message) == AnyKw(Words(Lower(message)), dangerous_keywords)

Refusal == [kind |-> "refusal"]        \* index.py line 82, chatgpt_faq.py line 42
Unavailable == [kind |-> "unavailable"]                      \* line 58
Pong == [kind |-> "pong"]                                    \* index.py line 63
Generated(text) == [kind |-> "generated", text |-> text]     \* line 54

\* What the call at line 44 can do: raise (network error, timeout, API
\* error), or return a response without choices, with a null content, or
\* with a content string.
BackendOutcomes ==
    { [kind |-> "raise"], [kind |-> "no_choices"], [kind |-> "null_content"],
      [kind |-> "content", text |-> <<"eigyou", "desu">>],
      [kind |-> "content", text |-> <<" ", "wakarimasen", " ">>],
      [kind |-> "content", text |-> <<>>] }

\* No call was made to the backend in the turn.
NotCalled == [kind |-> "not_called"]

\* Faulty variant of ChatGPTFAQ.get_response: the dangerous-query check
\* comes after the backend call.
chatgpt_get_response_late_check(user_message, kb_facts, outcome) ==
    LET context == IF kb_facts.found /\ DOMAIN kb_facts.kb_facts # {}
                   THEN kb_facts.kb_facts
                   ELSE EmptyDict
    IN  IF outcome.kind # "content"
        THEN [reply |-> Unavailable, calls |-> 1, facts |-> context]
        ELSE IF _is_dangerous_query(user_message)
        THEN [reply |-> Refusal, calls |-> 1, facts |-> context]
        ELSE [reply |-> Generated(Strip(outcome.text)), calls |-> 1, facts |-> context]

\* ChatGPTFAQ.get_response.  The result is the text returned, the number of
\* calls made to the backend, and the facts written into the prompt.
chatgpt_get_response(user_message, kb_facts, outcome) ==
    LET context == IF kb_facts.found /\ DOMAIN kb_facts.kb_facts # {}
                   THEN kb_facts.kb_facts
                   ELSE EmptyDict
    IN  IF _is_dangerous_query(user_message)
        THEN [reply |-> Refusal, calls |-> 0, facts |-> EmptyDict]
        ELSE IF outcome.kind = "content"
        THEN [reply |-> Generated(Strip(outcome.text)), calls |-> 1, facts |-> context]
        ELSE [reply |-> Unavailable, calls |-> 1, facts |-> context]

-----------------------------------------------------------------------------
(* handle_message (api/index.py)                                           *)

\* handle_message, up to the reply it sends: the turns it can take, one for
\* each thing the backend can do when it is called.  A turn is the states
\* after it, the reply, the branch taken, the backend calls made, the facts
\* supplied to the backend and what the backend did.
handle_message(states, faq, user_id, text) ==
    LET message_text == Strip(text)
    IN  IF message_text = <<"ping">>
        THEN {[states |-> states, reply |-> Pong, path |-> "ping",
               calls |-> 0, facts |-> EmptyDict, backend |-> NotCalled]}
        ELSE LET r == get_response(states, user_id, message_text)
             IN  IF r.reply # NoDecision
                 THEN {[states |-> r.states, reply |-> r.reply,
                        path |-> "reservation", calls |-> 0, facts |-> EmptyDict,
                        backend |-> NotCalled]}
                 ELSE LET kb_facts == get_kb_facts(faq, message_text)
                      IN  IF kb_facts.found
                          THEN {LET g == chatgpt_get_response(message_text, kb_facts,
                                                                  outcome)
                                IN  [states |-> r.states, reply |-> g.reply,
                                     path |-> "kb_hit", calls |-> g.calls,
                                     facts |-> g.facts,
                                     backend |-> IF g.calls = 0
                                                 THEN NotCalled
                                                 ELSE outcome] :
                                   outcome \in BackendOutcomes}
                          ELSE {[states |-> r.states, reply |-> Refusal,
                                 path |-> "kb_miss", calls |-> 0,
                                 facts |-> EmptyDict,
                                 backend |-> NotCalled]}

-----------------------------------------------------------------------------
(* The state machine                                                       *)

\* The messages users send in the explored runs.  The properties below
\* apply the handlers to larger sets of messages in every state these reach.
Messages ==
    { <<"yoyaku">>, <<"karaa", "katto">>, <<"paama">>, <<"mishitei">>,
      <<"kyanseru">>, <<"ashita">>, <<"doyoubi">>, <<"hai">>, <<"iie">>,
      <<"1", "4", ":", "0", "0">>, <<"2", "5", ":", "0", "0">> }

\* The user's step, or None when no dialogue is open.
StepOf(states, user_id) ==
    IF user_id \in DOMAIN states THEN states[user_id].step ELSE None

NoEvent ==
    [user |-> None, step |-> None, intent |-> None, reply |-> NoDecision,
     path |-> None, calls |-> 0, facts |-> EmptyDict, backend |-> NotCalled]

\* ReservationFlow.__init__ on day base_date
Init ==
    /\ base_date \in 0..6
    /\ now = base_date
    /\ available_slots = _generate_sample_slots(base_date)
    /\ user_states = EmptyDict
    /\ rag_faq = RAGFAQ([ok |-> FALSE], [ok |-> FALSE])
    /\ event = NoEvent
    /\ requests = EmptyDict
    /\ running = 0
    /\ before = EmptyDict

\* One turn: the router entry point is called with a user's message.  The
\* event records who sent it, the step they were at, how the router
\* classified the message, and the reply.
GetResponse(user_id, message) ==
    \E r \in {get_response(user_states, user_id, message)} :
        /\ user_states' = r.states
        /\ event' = [user |-> user_id, step |-> StepOf(user_states, user_id),
                     intent |-> detect_intent(user_states, message, user_id),
                     reply |-> r.reply]
        /\ UNCHANGED <<available_slots, base_date, now, rag_faq, conc_vars>>

\* Midnight passes while the process keeps running.
Tick ==
    /\ now < base_date + MaxDays
    /\ now' = now + 1
    /\ UNCHANGED <<user_states, available_slots, base_date, rag_faq, event,
                   conc_vars>>

Next ==
    \/ \E user_id \in Users, message \in Messages : GetResponse(user_id, message)
    \/ Tick

Spec == Init /\ [][Next]_vars

-----------------------------------------------------------------------------
(* The whole bot: every message goes through handle_message.               *)

\* FAQ entries (question, answer_template, category)
Entry(question, answer_template, category) ==
    [question |-> question, answer_template |-> answer_template,
     category |-> category]

EntryHours ==
    Entry(<<"eigyou", " ", "annai">>, <<"{", "HOURS", "}", " ", "desu">>, "hours")
EntryPrice ==
    Entry(<<"ryoukin", " ", "annai">>,
          <<"{", "PRICE", "}", " ", "{", "HOURS", "}">>, "price")
EntryAllergy ==
    Entry(<<"arerugii", " ", "taiou">>, <<"soudan", " ", "kudasai">>, "care")
EntryPlace ==
    Entry(<<"basho", " ", "annai">>, <<"{", "ADDRESS", "}">>, "access")
EntryHoursLower ==
    Entry(<<"eigyou", " ", "annai">>, <<"{", "hours", "}">>, "hours2")
EntryHoliday ==
    Entry(<<"teikyuubi", "ha">>, <<"{", " ", "HOLIDAY", " ", "}", " ", "HOURS">>,
          "holiday")

\* The files faq_data.json can be: unreadable, an empty list, or a list.
FaqSources ==
    { [ok |-> FALSE],
      [ok |-> TRUE, items |-> <<>>],
      [ok |-> TRUE, items |-> <<EntryHours, EntryPrice, EntryAllergy>>],
      [ok |-> TRUE, items |-> <<EntryHoursLower, EntryHours, EntryPlace,
                                EntryHoliday, EntryPrice>>] }

\* The files kb.json can be: unreadable, or a list of {key, value} items.
KbSources ==
    { [ok |-> FALSE],
      [ok |-> TRUE, items |-> << [key |-> "HOURS", value |-> "9-18"],
                                 [key |-> "PRICE", value |-> "3000"],
                                 [key |-> "HOLIDAY", value |-> "kayoubi"],
                                 [key |-> "ADDRESS", value |-> ""],
                                 [key |-> "HOURS", value |-> "10-19"] >>],
      [ok |-> TRUE, items |-> << [key |-> "PRICE", value |-> "3000"] >>] }

\* The texts users send in the explored runs.
Texts ==
    { <<"ping">>, <<" ", "ping", " ">>, <<"yoyaku">>, <<"katto">>, <<"kyanseru">>,
      <<"konnichiwa">>, <<"eigyou">>, <<"annai">>, <<"ryoukin", " ", "annai">>,
      <<"arerugii">>, <<"basho">>, <<"teikyuubi">>, <<"hours", " ", "nanika">> }

\* Module start of api/index.py: RAGFAQ() loads both files,
\* ReservationFlow() starts with no dialogue.
FaqInit ==
    /\ base_date = 0
    /\ now = base_date
    /\ available_slots = _generate_sample_slots(base_date)
    /\ user_states = EmptyDict
    /\ rag_faq \in {RAGFAQ(faq_source, kb_source) :
                        faq_source \in FaqSources, kb_source \in KbSources}
    /\ event = NoEvent
    /\ requests = EmptyDict
    /\ running = 0
    /\ before = EmptyDict

\* One turn of handle_message.
HandleMessage(user_id, text) ==
    \E t \in handle_message(user_states, rag_faq, user_id, text) :
        /\ user_states' = t.states
        /\ event' = [user |-> user_id, step |-> StepOf(user_states, user_id),
                     intent |-> detect_intent(user_states, Strip(text), user_id),
                     reply |-> t.reply, path |-> t.path, calls |-> t.calls,
                     facts |-> t.facts, backend |-> t.backend]
        /\ UNCHANGED <<available_slots, base_date, now, rag_faq, conc_vars>>

FaqNext == \E user_id \in Users, text \in Texts : HandleMessage(user_id, text)

FaqSpec == FaqInit /\ [][FaqNext]_vars

-----------------------------------------------------------------------------
(* Concurrent webhook calls (api/index.py, callback)                       *)
(*                                                                         *)
(* callback is a coroutine of the server's single event loop.  It awaits   *)
(* the request body and then calls handler.handle, an ordinary function    *)
(* call: handle_message, get_response and the LINE reply run to the end    *)
(* without an await.  A second callback can therefore start, and can be    *)
(* resumed first, while one is waiting for its body, but none runs while   *)
(* another is inside handler.handle.  ConcSpec runs rounds of callbacks,   *)
(* handle_reservation_flow in two steps (the state lookup of lines         *)
(* 101-110, then the step handler of lines 112-125), with `running` the    *)
(* callback that holds the loop.                                           *)

\* The callbacks of one round.
Callbacks == {1, 2}

\* The texts sent in the rounds.
ConcTexts ==
    { <<"yoyaku">>, <<"katto">>, <<"karaa">>, <<"mishitei">>, <<"ashita">>,
      <<"1", "4", ":", "0", "0">>, <<"hai">>, <<"iie">>, <<"kyanseru">>,
      <<" ", "ping">> }

\* self.user_states[user_id] of a user the dict does not hold: the
\* exception leaves handle_message and callback answers HTTP 401.
KeyError == [kind |-> "KeyError"]

Idle ==
    [pc |-> "idle", user |-> None, text |-> <<>>, step |-> None,
     reply |-> NoDecision, arrived |-> 0, handled |-> 0]

\* How many callbacks of the round are at one of the positions.
CountAt(pcs) == Cardinality({c \in Callbacks : requests[c].pc \in pcs})

\* Faulty variant of Yields: the loop may switch to another callback at
\* every position, as if the handler awaited between its statements.
Yields_everywhere(pc) ==
    TRUE

\* Whether a callback at this position has given the loop back: only at
\* `await request.body()` and when it has returned.
Yields(pc) ==
    pc \in {"idle", "body", "done"}

\* Lines 112-125 of handle_reservation_flow with the step read at line 110.
\* When the user's state is gone, a handler returns its retry text if it
\* returns before touching the state, and raises KeyError otherwise.
dispatch(states, user_id, message, step) ==
    LET held == IF user_id \in DOMAIN states THEN states
                ELSE Put(states, user_id,
                         [step |-> step,
                          data |-> [service |-> "katto", staff |-> "mishitei",
                                    date |-> now, time |-> "10:00"]])
        r == CASE step = "start" -> _start_reservation(held, user_id)
               [] step = "service_selection" ->
                      _handle_service_selection(held, user_id, message)
               [] step = "staff_selection" ->
                      _handle_staff_selection(held, user_id, message)
               [] step = "date_selection" ->
                      _handle_date_selection(held, user_id, message)
               [] step = "time_selection" ->
                      _handle_time_selection(held, user_id, message)
               [] step = "confirmation" ->
                      _handle_confirmation(held, user_id, message)
               [] OTHER -> Result(held, FlowError)
    IN  IF user_id \in DOMAIN states THEN r
        ELSE IF r.reply \in {ServiceRetry, StaffRetry, DateRetry, TimeInvalid,
                             Farewell, FlowError}
        THEN Result(states, r.reply)
        ELSE Result(states, KeyError)

\* The callback has returned with this reply.
Done(c, reply) ==
    [requests EXCEPT ![c].pc = "done", ![c].reply = reply,
                     ![c].handled = 1 + CountAt({"done"})]

\* Module start of api/index.py, on a Wednesday, with no FAQ or KB file.
ConcInit ==
    /\ base_date = 2
    /\ now = base_date
    /\ available_slots = _generate_sample_slots(base_date)
    /\ user_states = EmptyDict
    /\ rag_faq = RAGFAQ([ok |-> FALSE], [ok |-> FALSE])
    /\ event = NoEvent
    /\ requests = [c \in Callbacks |-> Idle]
    /\ running = 0
    /\ before = EmptyDict

\* A webhook request arrives: callback starts and waits for the body.
Receive(c, user_id, text) ==
    /\ requests[c].pc = "idle"
    /\ running = 0
    /\ requests' = [requests EXCEPT ![c] =
                        [Idle EXCEPT !.pc = "body", !.user = user_id,
                                     !.text = text,
                                     !.arrived = 1 + CountAt({"body", "dispatch",
                                                              "done"})]]
    /\ UNCHANGED <<available_slots, base_date, now, user_states, rag_faq, event,
                   running, before>>

\* The body has arrived: handler.handle runs handle_message, which ends
\* the turn unless the router sends the message to the dialogue; there
\* handle_reservation_flow creates the state if there is none and either
\* cancels or reads the step (lines 101-110).
Enter(c) ==
    LET q == requests[c]
        message_text == Strip(q.text)
        intent == detect_intent(user_states, message_text, q.user)
        created == IF q.user \notin DOMAIN user_states
                   THEN Put(user_states, q.user,
                            [step |-> "start", data |-> EmptyDict])
                   ELSE user_states
    IN  /\ q.pc = "body"
        /\ running = 0
        /\ IF message_text # <<"ping">>
              /\ intent \in {"reservation", "reservation_flow",
                             "service_selection", "staff_selection"}
           THEN IF IsOneOf(Lower(message_text), flow_cancel_words)
                THEN /\ user_states' = Del(created, q.user)
                     /\ requests' = Done(c, Farewell)
                ELSE /\ user_states' = created
                     /\ requests' = [requests EXCEPT
                                         ![c].pc = "dispatch",
                                         ![c].step = created[q.user].step]
           ELSE \E t \in handle_message(user_states, rag_faq, q.user, q.text) :
                    /\ user_states' = t.states
                    /\ requests' = Done(c, t.reply)
        /\ running' = IF Yields(requests'[c].pc) THEN 0 ELSE c
        /\ UNCHANGED <<available_slots, base_date, now, rag_faq, event, before>>

\* The step handler runs and the callback returns.
Dispatch(c) ==
    LET q == requests[c]
        r == dispatch(user_states, q.user, Strip(q.text), q.step)
    IN  /\ q.pc = "dispatch"
        /\ running \in {0, c}
        /\ user_states' = r.states
        /\ requests' = Done(c, r.reply)
        /\ running' = 0
        /\ UNCHANGED <<available_slots, base_date, now, rag_faq, event, before>>

\* Every callback of the round has returned; the next round starts.
Return ==
    /\ \A c \in Callbacks : requests[c].pc = "done"
    /\ requests' = [c \in Callbacks |-> Idle]
    /\ before' = user_states
    /\ UNCHANGED <<available_slots, base_date, now, user_states, rag_faq, event,
                   running>>

ConcNext ==
    \/ \E c \in Callbacks, user_id \in Users, text \in ConcTexts :
           Receive(c, user_id, text)
    \/ \E c \in Callbacks : Enter(c)
    \/ \E c \in Callbacks : Dispatch(c)
    \/ Return

ConcSpec == ConcInit /\ [][ConcNext]_vars

-----------------------------------------------------------------------------
(* Properties                                                              *)

OpenSteps ==
    {"service_selection", "staff_selection", "date_selection",
     "time_selection", "confirmation"}

HasDialogue(user_id) == user_id \in DOMAIN user_states

\* The messages that are exactly one cancellation keyword.
CancelMessages == {<<flow_cancel_words[j]>> : j \in 1..Len(flow_cancel_words)}

\* C1: at every step of an open dialogue, a cancellation-keyword message
\* sent through get_response deletes the user's state and is answered with
\* the farewell message.
C1_CancelAtEveryStep ==
    \A user_id \in DOMAIN user_states :
        \A message \in CancelMessages :
            LET r == get_response(user_states, user_id, message)
            IN  /\ user_id \notin DOMAIN r.states
                /\ r.reply = Farewell

\* Messages of every kind: greetings, keywords of each list, dates, times.
C2_Messages ==
    { <<"iie">>, <<"konnichiwa">>, <<"hai">>, <<"henkou">>, <<"yameru">>,
      <<"yoyaku">>, <<"katto">>, <<"tanaka">>, <<"ashita">>,
      <<"1", "4", ":", "0", "0">> }

\* C2: while a user has an open dialogue, get_response never returns
\* no-decision and never gives the no-dialogue "contact support" reply:
\* every message is input to the dialogue.
C2_OpenDialogueTakesEveryMessage ==
    \A user_id \in DOMAIN user_states :
        \A message \in C2_Messages :
            LET r == get_response(user_states, user_id, message)
            IN  r.reply # NoDecision /\ r.reply # ContactSupport

\* Messages with no affirmative keyword in them.
C3_Messages ==
    { <<"iie">>, <<"konnichiwa">>, <<"yoyaku">>, <<"katto">>, <<"henkou">>,
      <<"1", "4", ":", "0", "0">>, <<"kyanseru">> }

\* C3: at step confirmation a message that is not affirmative is answered
\* with the farewell message and leaves the user without a dialogue.
C3_NonAffirmativeEndsDialogue ==
    \A user_id \in DOMAIN user_states :
        user_states[user_id].step = "confirmation" =>
            \A message \in C3_Messages :
                LET r == get_response(user_states, user_id, message)
                IN  /\ r.reply = Farewell
                    /\ user_id \notin DOMAIN r.states

\* The collected fields each step expects.
FieldsAt(step) ==
    CASE step = "service_selection" -> {}
      [] step = "staff_selection" -> {"service"}
      [] step = "date_selection" -> {"service", "staff"}
      [] step = "time_selection" -> {"service", "staff", "date"}
      [] step = "confirmation" -> {"service", "staff", "date", "time"}

\* C4: the states are keyed by user, one per user, and the step of each
\* determines exactly which collected fields are present; confirmation has
\* service, staff, date and time.
C4_StepDeterminesFields ==
    /\ DOMAIN user_states \subseteq Users
    /\ \A user_id \in DOMAIN user_states :
           /\ user_states[user_id].step \in OpenSteps
           /\ DOMAIN user_states[user_id].data = FieldsAt(user_states[user_id].step)

\* A dialogue has reached confirmation with its four fields collected.
C4_Witness ==
    \E user_id \in DOMAIN user_states :
        /\ user_states[user_id].step = "confirmation"
        /\ DOMAIN user_states[user_id].data = {"service", "staff", "date", "time"}

\* The turns of one user in a row, starting from `states`; the result of
\* the last turn.
RECURSIVE RunTurns(_, _, _)
RunTurns(states, user_id, messages) ==
    LET r == get_response(states, user_id, Head(messages))
    IN  IF Len(messages) = 1 THEN r
        ELSE RunTurns(r.states, user_id, Tail(messages))

\* The next Saturday after `day`.
SaturdayAfter(day) == day + (CHOOSE k \in 1..7 : Weekday(day + k) = 5)

\* Whole dialogues: the six messages, and the four values they choose.
C5_Dialogues ==
    { [messages |-> << <<"yoyaku">>, <<"katto">>, <<"mishitei">>, <<"ashita">>,
                       <<"1", "4", ":", "0", "0">>, <<"hai">> >>,
       service |-> "katto", staff |-> "mishitei", date |-> now + 1, time |-> "14:00"],
      [messages |-> << <<"paama">>, <<"paama">>, <<"tanaka">>, <<"asatte">>,
                       <<"1", "5", "ji">>, <<"kakutei">> >>,
       service |-> "paama", staff |-> "tanaka", date |-> now + 2, time |-> "15:00"],
      [messages |-> << <<"yoyaku">>, <<"yoyaku", "Cut">>, <<"tantousha">>, <<"doyoubi">>,
                       <<"1", "0", "0", "0">>, <<"onegai">> >>,
       service |-> "katto", staff |-> "mishitei", date |-> SaturdayAfter(now),
       time |-> "10:00"] }

C5_Affirmative == {<<"hai">>, <<"kakutei">>, <<"onegai">>, <<"hai", "onegai">>}

\* C5: a dialogue in which service, staff, date and time were chosen and
\* then confirmed ends with a completion summary of exactly those four
\* values, and the user's state is deleted.  (A dialogue whose date has no
\* free slot never gets a time accepted and is not a case of the claim.)
C5_SummaryIsWhatWasChosen ==
    /\ \A user_id \in Users \ DOMAIN user_states :
           \A d \in C5_Dialogues :
               LET asked == RunTurns(user_states, user_id, SubSeq(d.messages, 1, 5))
                   done == get_response(asked.states, user_id, d.messages[6])
               IN  asked.reply.kind = "confirm_prompt" =>
                       /\ done.reply = [kind |-> "completed", service |-> d.service,
                                        staff |-> d.staff, date |-> d.date,
                                        time |-> d.time]
                       /\ done.states = user_states
    /\ \A user_id \in DOMAIN user_states :
           user_states[user_id].step = "confirmation" =>
               \A message \in C5_Affirmative :
                   LET r == get_response(user_states, user_id, message)
                       data == user_states[user_id].data
                   IN  /\ r.reply = [kind |-> "completed", service |-> data["service"],
                                     staff |-> data["staff"], date |-> data["date"],
                                     time |-> data["time"]]
                       /\ r.states = Del(user_states, user_id)

\* A confirmation was just answered with the completion summary.
C5_Witness ==
    /\ event.step = "confirmation"
    /\ event.reply.kind = "completed"
    /\ event.user \notin DOMAIN user_states

\* Messages that name a service and hold no reservation keyword.
C6_Messages ==
    { [message |-> <<"paama">>, service |-> "paama"],
      [message |-> <<"katto">>, service |-> "katto"],
      [message |-> <<"karaa">>, service |-> "karaa"],
      [message |-> <<"toriitomento">>, service |-> "toriitomento"],
      [message |-> <<"paama", "onegai">>, service |-> "paama"] }

\* C6 as stated: with no open dialogue a service name starts a dialogue at
\* staff_selection with the service already stored.
C6_ServiceNameStartsAtStaffSelection ==
    \A user_id \in Users \ DOMAIN user_states :
        \A c \in C6_Messages :
            LET r == get_response(user_states, user_id, c.message)
            IN  r.states = Put(user_states, user_id,
                               [step |-> "staff_selection",
                                data |-> [service |-> c.service]])

\* C6 amended: with no open dialogue a service name starts a dialogue at
\* service_selection with nothing stored, and the reply is the service
\* prompt; the service named in the message is not recorded.
C6_ServiceNameStartsAtServiceSelection ==
    \A user_id \in Users \ DOMAIN user_states :
        \A c \in C6_Messages :
            LET r == get_response(user_states, user_id, c.message)
            IN  /\ r.states = Put(user_states, user_id,
                                  [step |-> "service_selection", data |-> EmptyDict])
                /\ r.reply = ServicePrompt

\* A user without a dialogue sent a service name and got the service prompt.
C6_Witness ==
    /\ event.step = None
    /\ event.intent = "service_selection"
    /\ event.reply = ServicePrompt
    /\ HasDialogue(event.user)
    /\ user_states[event.user] = [step |-> "service_selection", data |-> EmptyDict]

\* One keyword of each list, in reverse order of priority, for every
\* combination of the four lists; a greeting for the empty combination.
C7_Message(classes) ==
    LET text == (IF "cancel" \in classes THEN <<"torikeshi">> ELSE <<>>)
                \o (IF "staff" \in classes THEN <<"yamada">> ELSE <<>>)
                \o (IF "service" \in classes THEN <<"karaa">> ELSE <<>>)
                \o (IF "reservation" \in classes THEN <<"itsu">> ELSE <<>>)
    IN  IF text = <<>> THEN <<"konnichiwa">> ELSE text

C7_Expected(classes) ==
    IF "reservation" \in classes THEN "reservation"
    ELSE IF "service" \in classes THEN "service_selection"
    ELSE IF "staff" \in classes THEN "staff_selection"
    ELSE IF "cancel" \in classes THEN "cancel"
    ELSE "general"

\* C7: with no open dialogue detect_intent classifies by the first list the
\* message matches, reservation > service > staff > cancellation > general,
\* for every combination of lists; a cancellation gets the "contact support"
\* reply and a general message no decision, both without touching the states.
C7_IntentPriority ==
    \A user_id \in Users \ DOMAIN user_states :
        \A classes \in SUBSET {"reservation", "service", "staff", "cancel"} :
            LET message == C7_Message(classes)
                intent == detect_intent(user_states, message, user_id)
                r == get_response(user_states, user_id, message)
            IN  /\ intent = C7_Expected(classes)
                /\ intent = "cancel" => r = Result(user_states, ContactSupport)
                /\ intent = "general" => r = Result(user_states, NoDecision)
                /\ intent \notin {"cancel", "general"} => r.reply = ServicePrompt

\* A user without a dialogue asked to cancel and was sent to support.
C7_Witness ==
    /\ event.step = None
    /\ event.intent = "cancel"
    /\ event.reply = ContactSupport
    /\ ~HasDialogue(event.user)

\* Inputs that fail each step's validation, and the reply that asks again.
C8_Invalid(step) ==
    CASE step = "service_selection" ->
             [reply |-> ServiceRetry,
              messages |-> {<<"iie">>, <<"tanaka">>, <<"ashita">>, <<"yoyaku">>,
                            <<"hai">>, <<"1", "4", ":", "0", "0">>}]
      [] step = "staff_selection" ->
             [reply |-> StaffRetry,
              messages |-> {<<"iie">>, <<"katto">>, <<"ashita">>, <<"yoyaku">>,
                            <<"hai">>, <<"1", "4", ":", "0", "0">>}]
      [] step = "date_selection" ->
             [reply |-> DateRetry,
              messages |-> {<<"iie">>, <<"katto">>, <<"tanaka">>, <<"kyou">>,
                            <<"yoyaku">>, <<"1", "4", ":", "0", "0">>}]
      [] step = "time_selection" ->
             [reply |-> TimeUnavailable,
              messages |-> {<<"2", "5", ":", "0", "0">>, <<"1", "2", ":", "0", "0">>,
                            <<"9", "ji">>, <<"1", "4", ":", "3", "0">>}]
      [] OTHER -> [reply |-> NoDecision, messages |-> {}]

\* Messages with no time in them.
C8_NoTime == {<<"iie">>, <<"ashita">>, <<"katto">>, <<"ji">>}

\* C8: in service, staff, date and time selection an input that fails the
\* step's validation is answered by the step's re-prompt and leaves every
\* user's state as it was, so the same holds for the next invalid input,
\* without limit; the router leaves the states unchanged on it as well.
C8_InvalidInputChangesNothing ==
    \A user_id \in DOMAIN user_states :
        LET step == user_states[user_id].step
        IN  /\ \A message \in C8_Invalid(step).messages :
                   /\ handle_reservation_flow(user_states, user_id, message)
                          = Result(user_states, C8_Invalid(step).reply)
                   /\ get_response(user_states, user_id, message).states = user_states
            /\ step = "time_selection" =>
                   \A message \in C8_NoTime :
                       /\ handle_reservation_flow(user_states, user_id, message)
                              = Result(user_states, TimeInvalid)
                       /\ get_response(user_states, user_id, message).states = user_states

\* A time was refused and the user is still asked for a time.
C8_Witness ==
    /\ event.step = "time_selection"
    /\ event.reply = TimeUnavailable
    /\ HasDialogue(event.user)
    /\ user_states[event.user].step = "time_selection"

\* Time inputs and the HH:MM each one spells (None: no time in it).
C9_Inputs ==
    { [message |-> <<"1", "4", ":", "0", "0">>, time |-> "14:00"],
      [message |-> <<"1", "5", "ji">>, time |-> "15:00"],
      [message |-> <<"9", "ji">>, time |-> "09:00"],
      [message |-> <<"1", "0", "0", "0">>, time |-> "10:00"],
      [message |-> <<"1", "4", ":", "3", "0">>, time |-> "14:30"],
      [message |-> <<"1", "4", "3", "0">>, time |-> "14:30"],
      [message |-> <<"1", "2", ":", "0", "0">>, time |-> "12:00"],
      [message |-> <<"2", "5", ":", "0", "0">>, time |-> "25:00"],
      [message |-> <<"ashita", "1", "3", ":", "0", "0">>, time |-> "13:00"],
      [message |-> <<"3", "nin", "1", "4", ":", "0", "0">>, time |-> "03:00"],
      [message |-> <<"iie">>, time |-> None] }

\* C9: in time_selection the time is stored and the step becomes
\* confirmation exactly when the HH:MM spelled by the message is in the list
\* of available slots of the stored date; every other input, 25:00 among
\* them, is answered with a re-prompt and changes nothing.
C9_TimeAcceptedIffAvailable ==
    \A user_id \in DOMAIN user_states :
        user_states[user_id].step = "time_selection" =>
            \A c \in C9_Inputs :
                LET r == get_response(user_states, user_id, c.message)
                    data == user_states[user_id].data
                    free == AvailableTimes(available_slots, data["date"])
                IN  /\ c.time = "25:00" => ~InSeq(c.time, free)
                    /\ IF InSeq(c.time, free)
                       THEN /\ r.states = Put(user_states, user_id,
                                              [step |-> "confirmation",
                                               data |-> Put(data, "time", c.time)])
                            /\ r.reply.kind = "confirm_prompt"
                            /\ r.reply.time = c.time
                       ELSE /\ r.states = user_states
                            /\ r.reply = IF c.time = None THEN TimeInvalid
                                         ELSE TimeUnavailable

\* A time was accepted and stored.
C9_Witness ==
    /\ event.step = "time_selection"
    /\ event.reply.kind = "confirm_prompt"
    /\ HasDialogue(event.user)
    /\ user_states[event.user].step = "confirmation"
    /\ user_states[event.user].data["time"] = event.reply.time

C10_Messages == {<<"yoyaku">>, <<"jikan">>, <<"yoyaku_onegai">>}

\* C10: after a dialogue has ended, by the completion summary or by the
\* farewell message, the user's next reservation-intent message is answered
\* with the service prompt and creates a fresh state: step service_selection
\* and no collected data.
C10_FreshDialogueAfterEnd ==
    event.reply.kind \in {"completed", "farewell"} =>
        \A message \in C10_Messages :
            LET r == get_response(user_states, event.user, message)
            IN  /\ r.reply = ServicePrompt
                /\ event.user \in DOMAIN r.states
                /\ r.states[event.user] =
                       [step |-> "service_selection", data |-> EmptyDict]

\* Days from each weekday (0 = Monday) to the Saturday the keyword means.
C16_DaysAhead(weekday) ==
    CASE weekday = 0 -> 5 [] weekday = 1 -> 4 [] weekday = 2 -> 3
      [] weekday = 3 -> 2 [] weekday = 4 -> 1 [] weekday = 5 -> 7
      [] weekday = 6 -> 6

C16_Messages == {<<"doyoubi">>, <<"doyou">>, <<"konshuu", "no", "doyoubi">>}

\* C16: on every weekday the Saturday keyword stores a date that is a
\* Saturday, after today and at most 7 days ahead: the next one from Monday
\* to Friday, 7 days ahead on a Saturday, 6 days ahead on a Sunday.
C16_SaturdayIsTheNextSaturday ==
    \A user_id \in DOMAIN user_states :
        user_states[user_id].step = "date_selection" =>
            \A message \in C16_Messages :
                LET r == get_response(user_states, user_id, message)
                    date == r.states[user_id].data["date"]
                IN  /\ r.states[user_id].step = "time_selection"
                    /\ r.reply.kind = "time_prompt"
                    /\ r.reply.date = date
                    /\ Weekday(date) = 5
                    /\ date > now
                    /\ date <= now + 7
                    /\ date = now + C16_DaysAhead(Weekday(now))

\* On a Saturday the keyword was sent and the Saturday a week later stored.
C16_Witness ==
    /\ Weekday(now) = 5
    /\ event.step = "date_selection"
    /\ event.reply.kind = "time_prompt"
    /\ event.reply.date = now + 7
    /\ HasDialogue(event.user)
    /\ user_states[event.user].data["date"] = now + 7

\* C17: every reply of the dialogue engine after which the user's dialogue
\* is still open reminds the user of the cancellation keyword.
C17_OpenRepliesRemindOfCancel ==
    /\ event.intent \in {"reservation", "reservation_flow", "service_selection",
                          "staff_selection"}
    /\ HasDialogue(event.user)
    => cancel_reminder(event.reply)

\* Messages that hold several table keywords, and the entry each one stores.
C18_Cases(step) ==
    CASE step = "service_selection" ->
             [field |-> "service",
              cases |-> { [message |-> <<"karaa", "katto">>, value |-> "katto"],
                          [message |-> <<"katto", "karaa">>, value |-> "katto"],
                          [message |-> <<"toriitomento", "paama">>, value |-> "paama"],
                          [message |-> <<"perm", "karaa">>, value |-> "karaa"],
                          [message |-> <<"Perm", "CUT">>, value |-> "katto"],
                          [message |-> <<"treatment", "color">>, value |-> "karaa"] }]
      [] step = "staff_selection" ->
             [field |-> "staff",
              cases |-> { [message |-> <<"tantousha">>, value |-> "mishitei"],
                          [message |-> <<"biyoushi">>, value |-> "mishitei"],
                          [message |-> <<"biyoushi", "tantousha">>, value |-> "mishitei"],
                          [message |-> <<"biyoushi", "yamada">>, value |-> "yamada"],
                          [message |-> <<"yamada", "tanaka">>, value |-> "tanaka"],
                          [message |-> <<"mishitei", "satou">>, value |-> "satou"] }]
      [] step = "date_selection" ->
             [field |-> "date",
              cases |-> { [message |-> <<"ashita", "asatte">>, value |-> now + 1],
                          [message |-> <<"asatte", "ashita">>, value |-> now + 1],
                          [message |-> <<"doyoubi", "asatte">>, value |-> now + 2],
                          [message |-> <<"doyou", "ashita">>, value |-> now + 1] }]
      [] OTHER -> [field |-> None, cases |-> {}]

\* The cases written with the Latin service names only: the router does not
\* take them for dialogue input.
C18_NotRouted == {<<"Perm", "CUT">>, <<"treatment", "color">>}

\* C18: in service, staff and date selection the first entry of the step's
\* table that the message contains is the one the step handler stores,
\* wherever the keywords stand in the message; get_response does the same
\* on every such message that the router hands to the dialogue.
C18_FirstTableEntryWins ==
    \A user_id \in DOMAIN user_states :
        LET c == C18_Cases(user_states[user_id].step)
        IN  \A case \in c.cases :
                LET e == handle_reservation_flow(user_states, user_id, case.message)
                    r == get_response(user_states, user_id, case.message)
                IN  /\ user_id \in DOMAIN e.states
                    /\ DOMAIN e.states[user_id].data =
                           DOMAIN user_states[user_id].data \cup {c.field}
                    /\ e.states[user_id].data[c.field] = case.value
                    /\ IF case.message \in C18_NotRouted
                       THEN r = Result(user_states, NoDecision)
                       ELSE r = e

\* The message naming two services (the only one of the explored runs that
\* holds the first entry) was sent, and the first entry is what was stored.
C18_Witness ==
    /\ event.step = "service_selection"
    /\ event.reply = StaffPrompt("katto")
    /\ HasDialogue(event.user)
    /\ user_states[event.user].data["service"] = "katto"

-----------------------------------------------------------------------------
(* Properties of the FAQ pipeline, checked under FaqSpec                   *)

\* Queries of every kind: no keyword of the corpus, keywords of one or of
\* several entries, placeholder names, sensitive words, a whole sentence.
FaqQueries ==
    Texts \cup { <<"HOURS">>, <<"eigyou", "ha", "nanji", "desu", "ka", "?">>,
                 <<"kusuri">>, <<"arerugii", " ", "taiou">>,
                 <<"annai", " ", "basho">>, <<"soudan">> }

Thresholds == {default_threshold, Float(1, 10, 0), Float(1, 2, 0)}

\* The scores of the entries that take part in the search of `query`.
ScoresOf(self, query) ==
    LET query_keywords == _extract_keywords(Lower(query))
    IN  [i \in {j \in 1..Len(self.faq_data) :
                   query_keywords \cup self.keyword_index[j].keywords # {}}
            |-> Score(query_keywords, self.keyword_index[i])]

\* The corpus is empty, or every score is strictly below the threshold.
BelowThreshold(self, query, threshold) ==
    \/ self.faq_data = <<>>
    \/ \A i \in DOMAIN ScoresOf(self, query) :
           Greater(threshold, ScoresOf(self, query)[i])

\* C11: search returns none whenever the corpus is empty or the best score
\* is strictly below the threshold; every such query that reaches the FAQ
\* pipeline is answered with the fixed refusal, with no backend call, so the
\* turn is the same whatever the backend would do.
C11_NoMatchIsRefused ==
    \A query \in FaqQueries :
        /\ \A threshold \in Thresholds :
               BelowThreshold(rag_faq, query, threshold) =>
                   search(rag_faq, query, threshold) = NoResult
        /\ \A user_id \in Users :
               /\ BelowThreshold(rag_faq, Strip(query), default_threshold)
               /\ Strip(query) # <<"ping">>
               /\ get_response(user_states, user_id, Strip(query)).reply = NoDecision
               => handle_message(user_states, rag_faq, user_id, query) =
                      {[states |-> user_states, reply |-> Refusal, path |-> "kb_miss",
                        calls |-> 0, facts |-> EmptyDict, backend |-> NotCalled]}

\* A query scored above zero and below the threshold on a loaded corpus was
\* just refused.
C11_Witness ==
    /\ event.reply = Refusal
    /\ event.path = "kb_miss"
    /\ rag_faq.faq_data # <<>>
    /\ \E i \in DOMAIN ScoresOf(rag_faq, <<"teikyuubi">>) :
           Greater(ScoresOf(rag_faq, <<"teikyuubi">>)[i], Float(0, 1, 0))

\* Messages that hold a sensitive-topic keyword.
C12_Messages ==
    { <<"arerugii">>, <<"arerugii", " ", "taiou">>, <<"kusuri">>, <<"yakuzai">>,
      <<"eigyou", " ", "ninshin">>, <<"annai", " ", "byouin">> }

\* Every match search can return in this state, at any threshold.
MatchesHere ==
    {r \in {search(rag_faq, query, threshold) :
                query \in FaqQueries, threshold \in Thresholds} : r.found}

\* C12: a message holding a sensitive-topic keyword that reaches the Gate
\* with a FAQ match of any score gets the fixed human-redirect refusal, and
\* the backend is not called, whatever it would do.
C12_SensitiveIsRefusedBeforeGeneration ==
    \A message \in C12_Messages :
        /\ \A kb_facts \in MatchesHere, outcome \in BackendOutcomes :
               chatgpt_get_response(message, kb_facts, outcome) =
                   [reply |-> Refusal, calls |-> 0, facts |-> EmptyDict]
        /\ \A user_id \in Users :
               \A t \in handle_message(user_states, rag_faq, user_id, message) :
                   t.path = "kb_hit" => t.reply = Refusal /\ t.calls = 0

\* A sensitive message matched a FAQ entry and was refused without a call.
C12_Witness ==
    /\ event.path = "kb_hit"
    /\ event.reply = Refusal
    /\ event.calls = 0

\* The keys whose placeholder is written in each entry's answer template.
C13_Placeholders(category) ==
    CASE category = "hours" -> {"HOURS"}
      [] category = "price" -> {"PRICE", "HOURS"}
      [] category = "care" -> {}
      [] category = "access" -> {"ADDRESS"}
      [] category = "hours2" -> {}
      [] category = "holiday" -> {}

\* C13: for every matched entry and every KB store, the facts search
\* returns are exactly the KB pairs whose {KEY} is written in the entry's
\* answer template.
C13_FactsAreThePlaceholders ==
    \A r \in MatchesHere :
        /\ DOMAIN r.kb_facts = C13_Placeholders(r.category) \cap DOMAIN rag_faq.kb_data
        /\ \A key \in DOMAIN r.kb_facts : r.kb_facts[key] = rag_faq.kb_data[key]

\* A turn matched the entry that names two keys, with both in the KB.
C13_Witness ==
    /\ event.path = "kb_hit"
    /\ event.calls = 1
    /\ DOMAIN event.facts = {"PRICE", "HOURS"}
    /\ DOMAIN rag_faq.kb_data = {"HOURS", "PRICE", "HOLIDAY"}

\* The ways the backend call fails: it raises, or its response has no
\* choices, no content, or an empty content.
C14_Failures ==
    { [kind |-> "raise"], [kind |-> "no_choices"], [kind |-> "null_content"],
      [kind |-> "content", text |-> <<>>] }

\* C14: a turn in which the backend call failed is answered with the fixed
\* "unavailable" message, and the backend was called once.
C14_BackendFailureIsUnavailable ==
    event.backend \in C14_Failures =>
        event.reply = Unavailable /\ event.calls = 1

\* C15: every reply of the FAQ pipeline that is generated comes from a
\* backend call to which at least one KB fact was supplied.
C15_AnswersTraceToKbFacts ==
    event.reply.kind = "generated" =>
        event.calls = 1 /\ DOMAIN event.facts # {}

\* C19: when search returns a result, it is the entry of greatest score in
\* the whole corpus and, among the entries of that score, the one loaded
\* first.
C19_BestScoreFirstLoaded ==
    \A query \in FaqQueries, threshold \in Thresholds :
        LET r == search(rag_faq, query, threshold)
            scores == ScoresOf(rag_faq, query)
        IN  r.found =>
                /\ r.at \in DOMAIN scores
                /\ r.similarity_score = scores[r.at]
                /\ r.faq_item = rag_faq.faq_data[r.at]
                /\ \A j \in DOMAIN scores :
                       /\ GreaterEq(r.similarity_score, scores[j])
                       /\ j < r.at => Greater(r.similarity_score, scores[j])

\* A turn matched an entry that a later entry equals in score.
C19_Witness ==
    /\ event.path = "kb_hit"
    /\ \E query \in Texts :
           LET r == search(rag_faq, query, default_threshold)
               scores == ScoresOf(rag_faq, query)
           IN  /\ r.found
               /\ \E j \in DOMAIN scores :
                      j > r.at /\ ~Greater(r.similarity_score, scores[j])

\* Texts of every route: ping, each intent, FAQ hits and misses.
C20_Texts ==
    FaqQueries \cup { <<"henkou">>, <<"torikeshi">>, <<"tanaka">>, <<"iie">>,
                      <<"yameru">> }

\* C20: a turn that is not handled by the dialogue engine (ping, the
\* "contact support" reply, no decision followed by the FAQ pipeline) leaves
\* the state of every user as it was.
C20_OnlyTheEngineChangesStates ==
    \A user_id \in Users, text \in C20_Texts :
        \A t \in handle_message(user_states, rag_faq, user_id, text) :
            \/ t.states = user_states
            \/ /\ t.path = "reservation"
               /\ detect_intent(user_states, Strip(text), user_id) \in
                      {"reservation", "reservation_flow", "service_selection",
                       "staff_selection"}

\* A user with an open dialogue asked to cancel, was sent to support, and
\* the dialogue is still there.
C20_Witness ==
    /\ event.intent = "cancel"
    /\ event.reply = ContactSupport
    /\ event.step = "service_selection"
    /\ HasDialogue(event.user)

-----------------------------------------------------------------------------
(* C22: the slot schedule is fixed                                         *)

\* The schedule the constructor builds, written out: every day of the
\* seven from the construction day except Tuesdays, at these hours.
C22_Times ==
    <<"10:00", "11:00", "13:00", "14:00", "15:00", "16:00", "17:00", "18:00">>

C22_Schedule(date) ==
    IF date \in base_date..(base_date + 6) /\ Weekday(date) # 1
    THEN C22_Times ELSE <<>>

C22_Inputs ==
    { [message |-> <<"1", "4", ":", "0", "0">>, time |-> "14:00"],
      [message |-> <<"1", "8", "ji">>, time |-> "18:00"],
      [message |-> <<"1", "2", ":", "0", "0">>, time |-> "12:00"],
      [message |-> <<"9", ":", "0", "0">>, time |-> "09:00"] }

\* C22: no operation of the dialogue changes a slot of the schedule: in
\* every reachable state, whatever was confirmed before and by whom, every
\* slot is still available, the times of each date are those the
\* constructor generated, and a user at time selection has a time accepted
\* exactly when the generated schedule has it for the chosen date.
C22_ScheduleIsFixed ==
    /\ \A i \in 1..Len(available_slots) : available_slots[i].available
    /\ \A date \in (base_date - 1)..(base_date + 8) :
           AvailableTimes(available_slots, date) = C22_Schedule(date)
    /\ \A user_id \in DOMAIN user_states :
           user_states[user_id].step = "time_selection" =>
               \A c \in C22_Inputs :
                   LET r == get_response(user_states, user_id, c.message)
                   IN  r.reply.kind = "confirm_prompt" <=>
                           InSeq(c.time, C22_Schedule(user_states[user_id].data["date"]))

\* A user has just confirmed a reservation while another user is choosing
\* a time for the same date.
C22_Witness ==
    /\ event.reply.kind = "completed"
    /\ \E user_id \in DOMAIN user_states :
           /\ user_id # event.user
           /\ user_states[user_id].step = "time_selection"
           /\ user_states[user_id].data["date"] = event.reply.date
           /\ get_response(user_states, user_id,
                           <<"1", "4", ":", "0", "0">>).reply.kind = "confirm_prompt"
           /\ event.reply.time = "14:00"

-----------------------------------------------------------------------------
(* C23: nothing is confirmed after the farewell                            *)

C23_Messages ==
    { <<"hai">>, <<"kakutei">>, <<"onegai">>, <<"yoyaku_onegai">> }

\* C23: once the farewell has been sent to a user, a completion summary
\* needs a new dialogue taken through service, staff, date and time
\* selection again; in particular, in the state right after a farewell no
\* single message of that user is answered with a completion summary.
C23_NoCompletionRightAfterFarewell ==
    event.reply = Farewell =>
        \A message \in C23_Messages :
            get_response(user_states, event.user, message).reply.kind # "completed"

-----------------------------------------------------------------------------
(* C24: a cancellation request with other text at confirmation             *)

\* Messages that contain a cancellation keyword and more text; the first
\* is the claim's example, one sentence in the source's language.
C24_Messages ==
    { <<"kyanseru_onegaishimasu">>, <<"kyanseru", "onegai">>,
      <<"yameru", "hai">>, <<"chuushi", "kakutei">> }

\* C24: at confirmation, a message that contains a cancellation keyword
\* together with other text never confirms the reservation.
C24_CancelRequestNeverConfirms ==
    \A user_id \in DOMAIN user_states :
        user_states[user_id].step = "confirmation" =>
            \A message \in C24_Messages :
                get_response(user_states, user_id, message).reply.kind # "completed"

-----------------------------------------------------------------------------
(* C25: an accepted date has a slot                                        *)

\* C25: whenever date selection accepts a date keyword, the schedule has
\* at least one available slot for the resolved date: the time prompt that
\* answers the keyword lists at least one time.
C25_AcceptedDateHasSlot ==
    (event.step = "date_selection" /\ event.reply.kind = "time_prompt") =>
        /\ event.reply.times # <<>>
        /\ AvailableTimes(available_slots, event.reply.date) # <<>>

-----------------------------------------------------------------------------
(* C26: the stored step is always an open step                             *)

C26_Messages ==
    Messages \cup { <<"Perm", "CUT">>, <<"kyanseru_onegaishimasu">>,
                    <<"tanaka">>, <<"nanika">>, <<>> }

\* The dict a call returns holds only open steps, and its reply is not the
\* unknown-step fallback.
C26_Sound(r) ==
    /\ r.reply # FlowError
    /\ \A user_id \in DOMAIN r.states : r.states[user_id].step \in OpenSteps

\* C26: after every completed call of handle_reservation_flow or
\* get_response each stored state has one of the five open steps; "start"
\* is never stored between turns and the unknown-step fallback reply is
\* never returned.
C26_StoredStepIsOpen ==
    /\ event.reply # FlowError
    /\ \A user_id \in DOMAIN user_states :
           user_states[user_id].step \in OpenSteps
    /\ \A user_id \in Users, message \in C26_Messages :
           /\ C26_Sound(get_response(user_states, user_id, message))
           /\ C26_Sound(handle_reservation_flow(user_states, user_id, message))

\* A dialogue has just been created: the call went through step "start"
\* and stored service_selection.
C26_Witness ==
    /\ event.step = None
    /\ event.intent = "reservation"
    /\ HasDialogue(event.user)
    /\ user_states[event.user] = [step |-> "service_selection", data |-> EmptyDict]
    /\ \E user_id \in Users : ~HasDialogue(user_id)

-----------------------------------------------------------------------------
(* C21: concurrent messages of one user, checked under ConcSpec            *)

\* The orders in which the callbacks of a round can be served one by one.
C21_Orders ==
    {order \in [1..Cardinality(Callbacks) -> Callbacks] :
        \A i, j \in 1..Cardinality(Callbacks) : order[i] = order[j] => i = j}

\* The outcomes of serving the round's messages one at a time in the given
\* order with handle_message, from the given states: the states at the end
\* and the reply of each callback.
RECURSIVE C21_Serial(_, _)
C21_Serial(outcome, order) ==
    IF order = <<>> THEN {outcome}
    ELSE LET c == Head(order)
         IN  UNION { C21_Serial([states |-> t.states,
                                 reply |-> (c :> t.reply) @@ outcome.reply],
                                Tail(order)) :
                       t \in handle_message(outcome.states, rag_faq,
                                            requests[c].user, requests[c].text) }

\* C21: updates to one user's reservation state are mutually exclusive.
\* However the callbacks of a round were interleaved, no step handler was
\* entered by another callback while one was between reading and writing
\* the state, none found the state deleted under it, and when the round is
\* over the states and the replies are those of serving the same messages
\* one at a time in some order.
C21_RoundsAreSerial ==
    /\ \A c \in Callbacks : requests[c].reply # KeyError
    /\ CountAt({"dispatch"}) <= 1
    /\ (\A c \in Callbacks : requests[c].pc = "done") =>
           [states |-> user_states,
            reply |-> [c \in Callbacks |-> requests[c].reply]]
               \in UNION { C21_Serial([states |-> before, reply |-> <<>>], order) :
                             order \in C21_Orders }

\* Two confirmations of one user were in flight together: the callback
\* that arrived first was served last, the other completed the reservation
\* and deleted the state, and the first was answered as a new message.
C21_Witness ==
    \E c, d \in Callbacks :
        /\ requests[c].pc = "done" /\ requests[d].pc = "done"
        /\ requests[c].user = requests[d].user
        /\ requests[c].user \in DOMAIN before
        /\ before[requests[c].user].step = "confirmation"
        /\ requests[c].text = <<"hai">> /\ requests[d].text = <<"hai">>
        /\ requests[c].arrived = 1 /\ requests[c].handled = 2
        /\ requests[d].reply.kind = "completed"
        /\ requests[c].reply = Refusal
        /\ requests[c].user \notin DOMAIN user_states

====
